---- MODULE Spec2Model ----
(***************************************************************************)
(* State-machine model of the browser session page of the healthcare       *)
(* translation client (HealthcareTranslation component): the session       *)
(* status, the WebSocket transports it creates, the audio capture graph,   *)
(* the inbound transcript events and the per-utterance                     *)
(* translate -> enhance -> synthesize pipelines.                           *)
(*                                                                         *)
(* One action is one event-loop task or one resumption of an async         *)
(* function after an await.  `await fetch(...)` followed by                *)
(* `await res.json()` is one resumption with one outcome, because nothing  *)
(* of the session is read or written between the two awaits.               *)
(***************************************************************************)
EXTENDS Integers, Sequences, FiniteSets

\* ------------------------------------------------------------------ bounds
MaxSessions == 2      \* startRecording invocations (one WebSocket each)
MaxFinals == 2        \* final transcripts delivered (one pipeline each)
MaxAudio == 1         \* AudioEvents counted per transport
MaxResults == 2       \* results carried by one TranscriptEvent
MaxFrames == 11       \* audio frames handed to the onaudioprocess of StreamTestPage
MaxBlock == 9         \* samples of one audio block
MaxRate == 18         \* sample rates of the audio context and of the request
SampleDen == 4        \* samples are the multiples of 1/SampleDen in [-2, 2]
MaxEvents == 8        \* open and close events of the sockets of a TranslationWebSocket
MaxCalls == 4         \* configureAmplify calls

Sessions == 1..MaxSessions
NoRef == 0            \* a ref whose .current is null

\* ------------------------------------------------------------------ values
SessionStatus == {"idle", "connecting", "recording", "stopped", "error"}

ReadyStates == {"NONE", "CONNECTING", "OPEN", "CLOSING", "CLOSED"}

\* The texts of the utterances, in the order they are spoken (every utterance
\* has its own text, so that a value shows which utterance it came from), the
\* texts of partial results, and the blank and non-string transcripts.
Utterances == <<"a", "b", "c", "d">>
Texts == {Utterances[k] : k \in 1..MaxFinals}
PartialTexts == {"p", "q"}
Blank == " "
NonString == "#"

\* The three external services, as injective maps so that the origin of
\* every produced value can be read off the value.
Translate(text) == <<"translated", text>>

Enhance(translatedText) == <<"enhanced", translatedText>>

Synthesize(text) == <<"audio", text>>

NoText == <<>>

VARIABLES
    status,            \* useState<SessionStatus>
    error,             \* useState<string | null>: which message is shown
    partialText,       \* useState('')
    finalTranscripts,  \* useState<string[]>
    translations,      \* useState<string[]>
    audioUrls,         \* useState<string[]>
    wsRef,             \* useRef<WebSocket>: a session id or NoRef
    mediaStreamRef,    \* useRef<MediaStream>
    processorRef,      \* useRef<ScriptProcessorNode>
    startPc,           \* per startRecording call: where the coroutine is
    readyState,        \* per WebSocket: ws.readyState ("NONE": not created)
    closeFired,        \* per WebSocket: its close event was dispatched
    capPc,             \* per beginAudioCapture call: where the coroutine is
    streamLive,        \* per MediaStream: its tracks are live
    procConnected,     \* per ScriptProcessorNode: connected to destination
    audioSent,         \* per WebSocket: AudioEvents passed to ws.send
    pipelines,         \* the translateAndEnhance calls, in start order
    stopped,           \* transports that were wsRef.current at a stopRecording
    streamStatus,      \* StreamTestPage: useState status
    streamWs,          \* StreamTestPage: readyState of the WebSocket of start
    streamCapPc,       \* StreamTestPage: where the beginCapture coroutine is
    vadState,          \* StreamTestPage: vadState of beginCapture
    frameLog,          \* StreamTestPage: the frames onaudioprocess was handed
    streamPartialText, \* StreamTestPage: useState partialText
    finalLines,        \* StreamTestPage: useState finalLines
    streamWsRef,       \* StreamTestPage: wsRef.current is the WebSocket
    lambdaCall,        \* transcribe-connection: one invocation of the handler
    audioCall,         \* one audio block through resampleTo16k / floatTo16BitPCM
    streamPipelines,   \* StreamTestPage: the translateFinal calls, in start order
    streamTranslations, \* StreamTestPage: useState translations
    streamAudioUrls,   \* StreamTestPage: useState audioUrls
    ws,                \* TranslationWebSocket: readyState of this.ws
    reconnectAttempts, \* TranslationWebSocket: this.reconnectAttempts
    reconnectTimer,    \* TranslationWebSocket: the delay of the pending setTimeout
    wsLog,             \* TranslationWebSocket: its open and close events so far
    isConfigured,      \* amplify/config.ts: let isConfigured
    configureLog       \* the configureAmplify calls: the caller, what the call did

pageVars == <<status, error, partialText, finalTranscripts, translations, audioUrls,
          wsRef, mediaStreamRef, processorRef, startPc, readyState, closeFired,
          capPc, streamLive, procConnected, audioSent, pipelines, stopped>>

streamVars == <<streamStatus, streamWs, streamCapPc, vadState, frameLog,
                streamPartialText, finalLines, streamWsRef>>

streamPipeVars == <<streamPipelines, streamTranslations, streamAudioUrls>>

wsClientVars == <<ws, reconnectAttempts, reconnectTimer, wsLog>>

configVars == <<isConfigured, configureLog>>

clientVars == <<wsClientVars, configVars>>

otherVars == <<streamVars, lambdaCall, audioCall, streamPipeVars, clientVars>>

vars == <<pageVars, otherVars>>

uiVars == <<partialText, finalTranscripts, translations, audioUrls>>

refVars == <<wsRef, mediaStreamRef, processorRef>>

wsVars == <<readyState, closeFired>>

capVars == <<capPc, streamLive, procConnected>>

\* The HealthcareTranslation page after its first render.
PageInit ==
    /\ status = "idle"
    /\ error = "null"
    /\ partialText = ""
    /\ finalTranscripts = <<>>
    /\ translations = <<>>
    /\ audioUrls = <<>>
    /\ wsRef = NoRef
    /\ mediaStreamRef = NoRef
    /\ processorRef = NoRef
    /\ startPc = [s \in Sessions |-> "idle"]
    /\ readyState = [s \in Sessions |-> "NONE"]
    /\ closeFired = [s \in Sessions |-> FALSE]
    /\ capPc = [s \in Sessions |-> "none"]
    /\ streamLive = [s \in Sessions |-> FALSE]
    /\ procConnected = [s \in Sessions |-> FALSE]
    /\ audioSent = [s \in Sessions |-> 0]
    /\ pipelines = <<>>
    /\ stopped = {}

\* vadState as beginCapture creates it.
NewVadState == [isSpeech |-> FALSE, silenceFrames |-> 0, speechFrames |-> 0]

\* The StreamTestPage after its first render.
StreamInit ==
    /\ streamStatus = "idle"
    /\ streamWs = "NONE"
    /\ streamCapPc = "none"
    /\ vadState = NewVadState
    /\ frameLog = <<>>
    /\ streamPartialText = ""
    /\ finalLines = <<>>
    /\ streamWsRef = FALSE
    /\ streamPipelines = <<>>
    /\ streamTranslations = <<>>
    /\ streamAudioUrls = <<>>

\* No invocation of the transcribe-connection handler, no audio block.
NoCall == [pc |-> "none"]

\* A TranslationWebSocket after construction, before connect is called.
ClientInit ==
    /\ ws = "NONE"
    /\ reconnectAttempts = 0
    /\ reconnectTimer = 0
    /\ wsLog = <<>>

\* The module amplify/config.ts after it was loaded.
ConfigInit ==
    /\ isConfigured = FALSE
    /\ configureLog = <<>>

Init ==
    /\ PageInit
    /\ StreamInit
    /\ lambdaCall = NoCall
    /\ audioCall = NoCall
    /\ ClientInit
    /\ ConfigInit

\* ---------------------------------------------------------------- teardown
\* The resources teardown works on, as one value, with the calls it issued.
Resources ==
    [wsRef |-> wsRef, mediaStreamRef |-> mediaStreamRef,
     processorRef |-> processorRef, readyState |-> readyState,
     streamLive |-> streamLive, procConnected |-> procConnected,
     issued |-> {}]

\* WebSocket.close(): starts the closing handshake of a connecting or open
\* socket and does nothing to a closing or closed one.
wsClose(rs, s) ==
    IF rs[s] \in {"CONNECTING", "OPEN"} THEN [rs EXCEPT ![s] = "CLOSING"] ELSE rs

\* cleanup() without `mediaStreamRef.current = null`.
cleanupKeepsStreamRef(R) ==
    LET closes == R.wsRef # NoRef /\ R.readyState[R.wsRef] \in {"OPEN", "CONNECTING"}
        stops == R.mediaStreamRef # NoRef
        disconnects == R.processorRef # NoRef
    IN  [wsRef |-> NoRef,
         mediaStreamRef |-> R.mediaStreamRef,
         processorRef |-> NoRef,
         readyState |-> IF closes THEN wsClose(R.readyState, R.wsRef) ELSE R.readyState,
         streamLive |-> IF stops THEN [R.streamLive EXCEPT ![R.mediaStreamRef] = FALSE]
                        ELSE R.streamLive,
         procConnected |-> IF disconnects
                           THEN [R.procConnected EXCEPT ![R.processorRef] = FALSE]
                           ELSE R.procConnected,
         issued |-> R.issued \cup (IF closes THEN {"close"} ELSE {})
                             \cup (IF stops THEN {"stop"} ELSE {})
                             \cup (IF disconnects THEN {"disconnect"} ELSE {})]

\* cleanup(): closes the socket of wsRef if it is open or connecting, stops
\* the tracks of mediaStreamRef, disconnects processorRef, and nulls all three.
cleanup(R) ==
    LET closes == R.wsRef # NoRef /\ R.readyState[R.wsRef] \in {"OPEN", "CONNECTING"}
        stops == R.mediaStreamRef # NoRef
        disconnects == R.processorRef # NoRef
    IN  [wsRef |-> NoRef,
         mediaStreamRef |-> NoRef,
         processorRef |-> NoRef,
         readyState |-> IF closes THEN wsClose(R.readyState, R.wsRef) ELSE R.readyState,
         streamLive |-> IF stops THEN [R.streamLive EXCEPT ![R.mediaStreamRef] = FALSE]
                        ELSE R.streamLive,
         procConnected |-> IF disconnects
                           THEN [R.procConnected EXCEPT ![R.processorRef] = FALSE]
                           ELSE R.procConnected,
         issued |-> R.issued \cup (IF closes THEN {"close"} ELSE {})
                             \cup (IF stops THEN {"stop"} ELSE {})
                             \cup (IF disconnects THEN {"disconnect"} ELSE {})]

\* stopRecording(): close(1000) on an open wsRef socket, a bare close() on any
\* other non-null wsRef socket, then cleanup().
stopRecording(R) ==
    LET closed ==
            IF R.wsRef # NoRef
            THEN [R EXCEPT !.readyState = wsClose(R.readyState, R.wsRef),
                           !.issued = R.issued \cup {"close"}]
            ELSE R
    IN  cleanup(closed)

\* The refs and resources after a teardown that returned T.
Released(T) ==
    /\ wsRef' = T.wsRef
    /\ mediaStreamRef' = T.mediaStreamRef
    /\ processorRef' = T.processorRef
    /\ readyState' = T.readyState
    /\ streamLive' = T.streamLive
    /\ procConnected' = T.procConnected

\* ------------------------------------------------------- session lifecycle
\* startRecording, up to `await fetchSignedUrl()`, as the s-th call of it.
\* The Start button is rendered while status is not 'recording' and disabled
\* while it is 'connecting'.
StartRecording(s) ==
    /\ status \notin {"recording", "connecting"}
    /\ startPc[s] = "idle"
    /\ \A r \in 1..(s - 1) : startPc[r] # "idle"
    /\ error' = "null"
    /\ status' = "connecting"
    /\ startPc' = [startPc EXCEPT ![s] = "fetchSignedUrl"]
    /\ UNCHANGED <<uiVars, refVars, wsVars, capVars, audioSent, pipelines, stopped,
                   otherVars>>

\* fetchSignedUrl resolved with a signedUrl: the WebSocket is constructed and
\* its handlers are attached.
SignedUrlResolved(s) ==
    /\ startPc[s] = "fetchSignedUrl"
    /\ startPc' = [startPc EXCEPT ![s] = "done"]
    /\ readyState' = [readyState EXCEPT ![s] = "CONNECTING"]
    /\ UNCHANGED <<status, error, uiVars, refVars, closeFired, capVars, audioSent,
                   pipelines, stopped,
                   otherVars>>

\* fetchSignedUrl threw (no API configuration, non-2xx, no signedUrl) or the
\* WebSocket constructor threw: the catch of startRecording.
SignedUrlFailed(s) ==
    /\ startPc[s] = "fetchSignedUrl"
    /\ startPc' = [startPc EXCEPT ![s] = "done"]
    /\ status' = "error"
    /\ error' = "setup"
    /\ UNCHANGED <<uiVars, refVars, wsVars, capVars, audioSent, pipelines, stopped,
                   otherVars>>

\* The message the catch of beginAudioCapture shows for an error name.
MicrophoneMessage(name) ==
    CASE name = "NotAllowedError" -> "permission"
      [] name = "NotFoundError" -> "notFound"
      [] name = "NotSupportedError" -> "notSupported"
      [] OTHER -> "microphone"

MicErrorNames == {"NotAllowedError", "NotFoundError", "NotSupportedError", "Error"}

\* ws.onopen: wsRef.current = ws, then beginAudioCapture up to
\* `await getUserMedia(...)`; without navigator.mediaDevices it throws into
\* its catch at once.
WsOnOpen(s, supported) ==
    /\ readyState[s] = "CONNECTING"
    /\ readyState' = [readyState EXCEPT ![s] = "OPEN"]
    /\ wsRef' = s
    /\ IF supported
       THEN /\ status' = "recording"
            /\ capPc' = [capPc EXCEPT ![s] = "getUserMedia"]
            /\ UNCHANGED error
       ELSE /\ status' = "error"
            /\ error' = MicrophoneMessage("Error")
            /\ capPc' = [capPc EXCEPT ![s] = "failed"]
    /\ UNCHANGED <<uiVars, mediaStreamRef, processorRef, startPc, closeFired,
                   streamLive, procConnected, audioSent, pipelines, stopped,
                   otherVars>>

\* beginAudioCapture from the stream on: mediaStreamRef is set; a suspended
\* AudioContext is resumed first (an await), otherwise the graph is built.
GetUserMediaResolved(s, suspended) ==
    /\ capPc[s] = "getUserMedia"
    /\ mediaStreamRef' = s
    /\ streamLive' = [streamLive EXCEPT ![s] = TRUE]
    /\ IF suspended
       THEN /\ capPc' = [capPc EXCEPT ![s] = "resume"]
            /\ UNCHANGED <<processorRef, procConnected>>
       ELSE /\ capPc' = [capPc EXCEPT ![s] = "running"]
            /\ processorRef' = s
            /\ procConnected' = [procConnected EXCEPT ![s] = TRUE]
    /\ UNCHANGED <<status, error, uiVars, wsRef, startPc, wsVars, audioSent,
                   pipelines, stopped,
                   otherVars>>

\* getUserMedia rejected: the catch of beginAudioCapture.
GetUserMediaRejected(s, name) ==
    /\ capPc[s] = "getUserMedia"
    /\ capPc' = [capPc EXCEPT ![s] = "failed"]
    /\ status' = "error"
    /\ error' = MicrophoneMessage(name)
    /\ UNCHANGED <<uiVars, refVars, startPc, wsVars, streamLive, procConnected,
                   audioSent, pipelines, stopped,
                   otherVars>>

\* audioCtx.resume() resolved: the graph is built and onaudioprocess set.
ResumeResolved(s) ==
    /\ capPc[s] = "resume"
    /\ capPc' = [capPc EXCEPT ![s] = "running"]
    /\ processorRef' = s
    /\ procConnected' = [procConnected EXCEPT ![s] = TRUE]
    /\ UNCHANGED <<status, error, uiVars, wsRef, mediaStreamRef, startPc, wsVars,
                   streamLive, audioSent, pipelines, stopped,
                   otherVars>>

\* audioCtx.resume() rejected: the catch of beginAudioCapture.
ResumeRejected(s) ==
    /\ capPc[s] = "resume"
    /\ capPc' = [capPc EXCEPT ![s] = "failed"]
    /\ status' = "error"
    /\ error' = MicrophoneMessage("Error")
    /\ UNCHANGED <<uiVars, refVars, startPc, wsVars, streamLive, procConnected,
                   audioSent, pipelines, stopped,
                   otherVars>>

\* An onaudioprocess that sends whatever the state of the socket.
SendAlways(s) == TRUE

\* The guard of processor.onaudioprocess: it returns unless
\* ws.readyState === WebSocket.OPEN.
SendAllowed(s) == readyState[s] = "OPEN"

\* processor.onaudioprocess of the capture of session s (the handler closes
\* over that session's ws): one AudioEvent is sent unless the guard returns.
OnAudioProcess(s) ==
    /\ capPc[s] = "running"
    /\ SendAllowed(s)
    /\ audioSent[s] < MaxAudio
    /\ audioSent' = [audioSent EXCEPT ![s] = audioSent[s] + 1]
    /\ UNCHANGED <<status, error, uiVars, refVars, startPc, wsVars, capVars,
                   pipelines, stopped,
                   otherVars>>

\* ws.onerror: the connection failed; the socket is closed and its close
\* event follows.
WsOnError(s) ==
    /\ readyState[s] \in {"CONNECTING", "OPEN", "CLOSING"}
    /\ readyState' = [readyState EXCEPT ![s] = "CLOSED"]
    /\ status' = "error"
    /\ error' = "transport"
    /\ UNCHANGED <<uiVars, refVars, startPc, closeFired, capVars, audioSent,
                   pipelines, stopped,
                   otherVars>>

\* A ws.onclose that also opens a new WebSocket, as the one of the next
\* startRecording call would be.
WsOnCloseReconnects(s) ==
    /\ \/ readyState[s] \in {"OPEN", "CLOSING"}
       \/ readyState[s] = "CLOSED" /\ ~closeFired[s]
    /\ closeFired' = [closeFired EXCEPT ![s] = TRUE]
    /\ status' = "stopped"
    /\ LET next == {r \in Sessions : startPc[r] = "idle" /\ readyState[r] = "NONE"}
           reopened ==
               IF next = {} THEN readyState
               ELSE [readyState EXCEPT ![CHOOSE r \in next : \A q \in next : r <= q] =
                         "CONNECTING"]
       IN  Released(cleanup([Resources EXCEPT !.readyState =
                                 [reopened EXCEPT ![s] = "CLOSED"]]))
    /\ UNCHANGED <<error, uiVars, startPc, capPc, audioSent, pipelines, stopped,
                   otherVars>>

\* ws.onclose, after a clean close of an open or closing socket or after the
\* error event of a failed one: setStatus('stopped'), cleanup().
WsOnClose(s) ==
    /\ \/ readyState[s] \in {"OPEN", "CLOSING"}
       \/ readyState[s] = "CLOSED" /\ ~closeFired[s]
    /\ closeFired' = [closeFired EXCEPT ![s] = TRUE]
    /\ status' = "stopped"
    /\ Released(cleanup([Resources EXCEPT !.readyState[s] = "CLOSED"]))
    /\ UNCHANGED <<error, uiVars, startPc, capPc, audioSent, pipelines, stopped,
                   otherVars>>

\* A Stop button that also abandons the pipelines in flight.
StopRecordingCancels ==
    /\ status = "recording"
    /\ Released(stopRecording(Resources))
    /\ stopped' = stopped \cup (IF wsRef # NoRef THEN {wsRef} ELSE {})
    /\ pipelines' =
           [p \in 1..Len(pipelines) |->
               [pc |-> "done", text |-> "", basic |-> NoText, finalText |-> NoText]]
    /\ UNCHANGED <<status, error, uiVars, startPc, closeFired, capPc, audioSent,
                   otherVars>>

\* The Stop button (rendered while status is 'recording').
StopRecording ==
    /\ status = "recording"
    /\ Released(stopRecording(Resources))
    /\ stopped' = stopped \cup (IF wsRef # NoRef THEN {wsRef} ELSE {})
    /\ UNCHANGED <<status, error, uiVars, startPc, closeFired, capPc, audioSent,
                   pipelines,
                   otherVars>>

\* cleanup() from the beforeunload listener or the effect's unmount return.
Cleanup ==
    /\ Released(cleanup(Resources))
    /\ UNCHANGED <<status, error, uiVars, startPc, closeFired, capPc, audioSent,
                   pipelines, stopped,
                   otherVars>>

\* The Clear button (disabled while status is 'recording').
ClearSession ==
    /\ status # "recording"
    /\ finalTranscripts' = <<>>
    /\ translations' = <<>>
    /\ audioUrls' = <<>>
    /\ partialText' = ""
    /\ error' = "null"
    /\ UNCHANGED <<status, refVars, startPc, wsVars, capVars, audioSent, pipelines,
                   stopped,
                   otherVars>>

\* ---------------------------------------------------------- inbound events
\* One entry of Transcript.Results: IsPartial and Alternatives[0].Transcript
\* ('' when there is no alternative).
PartialResults == [IsPartial : {TRUE}, Transcript : PartialTexts]

FinalResults == [IsPartial : {FALSE}, Transcript : Texts \cup {"", Blank, NonString}]

ResultSeqs ==
    UNION {[1..n -> PartialResults \cup FinalResults] : n \in 0..MaxResults}

\* The final results of `results` from result i on carry the texts of the
\* utterances after the n-th, in the order spoken.
RECURSIVE SpokenInOrder(_, _, _)
SpokenInOrder(results, i, n) ==
    IF i > Len(results) THEN TRUE
    ELSE IF ~results[i].IsPartial /\ results[i].Transcript \in Texts
    THEN /\ n < MaxFinals
         /\ results[i].Transcript = Utterances[n + 1]
         /\ SpokenInOrder(results, i + 1, n + 1)
    ELSE SpokenInOrder(results, i + 1, n)

\* What ws.onmessage can be handed: a text frame, bytes that do not decode, a
\* TranscriptEvent whose body is not JSON or holds no Results array, an event
\* of another type, an exception message, a TranscriptEvent with results.
Messages ==
    [kind : {"text", "undecodable", "badJson", "noResults", "otherEvent", "exception"},
     results : {<<>>}]
    \cup [kind : {"transcript"}, results : ResultSeqs]

\* String.prototype.trim on the texts of the model.
trim(t) == IF t = Blank THEN "" ELSE t

\* translateAndEnhance(text) up to `await fetch(.../translate)`.
NewPipeline(text) ==
    [pc |-> "translate", text |-> text, basic |-> NoText, finalText |-> NoText]

\* A pipeline that has returned.
Returned ==
    [pc |-> "done", text |-> "", basic |-> NoText, finalText |-> NoText]

\* handleResults with a partial result added to partialText.
RECURSIVE handleResultsConcat(_, _, _)
handleResultsConcat(results, i, acc) ==
    IF i > Len(results) THEN acc
    ELSE
        LET transcript == results[i].Transcript IN
        IF results[i].IsPartial
        THEN handleResultsConcat(results, i + 1,
                 [acc EXCEPT !.partialText = acc.partialText \o transcript])
        ELSE IF transcript = NonString THEN acc
        ELSE IF trim(transcript) # ""
        THEN handleResultsConcat(results, i + 1,
                 [partialText |-> "",
                  finalTranscripts |-> Append(acc.finalTranscripts, transcript),
                  pipelines |-> Append(acc.pipelines, NewPipeline(transcript))])
        ELSE handleResultsConcat(results, i + 1, acc)

\* handleResults with a final result put in front of finalTranscripts.
RECURSIVE handleResultsPrepend(_, _, _)
handleResultsPrepend(results, i, acc) ==
    IF i > Len(results) THEN acc
    ELSE
        LET transcript == results[i].Transcript IN
        IF results[i].IsPartial
        THEN handleResultsPrepend(results, i + 1, [acc EXCEPT !.partialText = transcript])
        ELSE IF transcript = NonString THEN acc
        ELSE IF trim(transcript) # ""
        THEN handleResultsPrepend(results, i + 1,
                 [partialText |-> "",
                  finalTranscripts |-> <<transcript>> \o acc.finalTranscripts,
                  pipelines |-> Append(acc.pipelines, NewPipeline(transcript))])
        ELSE handleResultsPrepend(results, i + 1, acc)

\* The `for (const result of results)` loop from result i on.  A partial
\* result overwrites partialText; a final one with non-blank text clears it,
\* is appended to finalTranscripts and starts translateAndEnhance; trim() of
\* a non-string transcript throws into the catch of onmessage, which ends
\* the loop.
RECURSIVE handleResults(_, _, _)
handleResults(results, i, acc) ==
    IF i > Len(results) THEN acc
    ELSE
        LET transcript == results[i].Transcript IN
        IF results[i].IsPartial
        THEN handleResults(results, i + 1, [acc EXCEPT !.partialText = transcript])
        ELSE IF transcript = NonString THEN acc
        ELSE IF trim(transcript) # ""
        THEN handleResults(results, i + 1,
                 [partialText |-> "",
                  finalTranscripts |-> Append(acc.finalTranscripts, transcript),
                  pipelines |-> Append(acc.pipelines, NewPipeline(transcript))])
        ELSE handleResults(results, i + 1, acc)

\* A ws.onmessage that gives up the session on bytes it cannot decode or on
\* a body that is not JSON.
statusOnMessageFatal(m) ==
    IF m.kind \in {"undecodable", "badJson"} THEN "error" ELSE status

\* What ws.onmessage does to the status for a message (it never sets it).
statusOnMessage(m) == status

\* ws.onmessage of session s.  The service sends transcripts of audio it has
\* received; any other message can arrive on any open socket.
WsOnMessage(s, m) ==
    /\ readyState[s] = "OPEN"
    /\ m.kind = "transcript" => audioSent[s] > 0
    /\ SpokenInOrder(m.results, 1, Len(pipelines))
    /\ LET after ==
               IF m.kind = "transcript"
               THEN handleResults(m.results, 1,
                        [partialText |-> partialText,
                         finalTranscripts |-> finalTranscripts,
                         pipelines |-> pipelines])
               ELSE [partialText |-> partialText,
                     finalTranscripts |-> finalTranscripts,
                     pipelines |-> pipelines]
       IN  /\ partialText' = after.partialText
           /\ finalTranscripts' = after.finalTranscripts
           /\ pipelines' = after.pipelines
    /\ status' = statusOnMessage(m)
    /\ UNCHANGED <<error, translations, audioUrls, refVars, startPc, wsVars, capVars,
                   audioSent, stopped,
                   otherVars>>

\* ------------------------------------------------- per-utterance pipelines
\* How a request can end: a 2xx response with the field, a 2xx response
\* without it, a non-2xx response, a rejected fetch, a body json() rejects.
Outcomes == {"ok", "noField", "httpError", "rejected", "malformed"}

Running(p) == p \in 1..Len(pipelines) /\ pipelines[p].pc # "done"

\* A TranslateResolved in which a failed translate request ends every
\* pipeline in flight.
TranslateResolvedAbortsAll(p, outcome) ==
    /\ Running(p)
    /\ pipelines[p].pc = "translate"
    /\ pipelines' =
           IF outcome = "ok"
           THEN [pipelines EXCEPT ![p] =
                    [@ EXCEPT !.pc = "enhance", !.basic = Translate(pipelines[p].text)]]
           ELSE [q \in 1..Len(pipelines) |-> Returned]
    /\ UNCHANGED <<status, error, uiVars, refVars, startPc, wsVars, capVars,
                   audioSent, stopped,
                   otherVars>>

\* translateAndEnhance after the translate request: a non-2xx response, a
\* rejected fetch and a malformed body throw into the catch; a response
\* without translatedText ends the pipeline silently.
TranslateResolved(p, outcome) ==
    /\ Running(p)
    /\ pipelines[p].pc = "translate"
    /\ pipelines' =
           [pipelines EXCEPT ![p] =
               IF outcome = "ok"
               THEN [@ EXCEPT !.pc = "enhance", !.basic = Translate(pipelines[p].text)]
               ELSE Returned]
    /\ UNCHANGED <<status, error, uiVars, refVars, startPc, wsVars, capVars,
                   audioSent, stopped,
                   otherVars>>

\* Whether the enhance request ends in the catch of translateAndEnhance.
enhanceThrows(outcome) == outcome \in {"rejected", "malformed"}

\* finalText after the enhance request.
finalTextAfter(basic, outcome) ==
    IF outcome = "ok" THEN Enhance(basic) ELSE basic

\* translateAndEnhance after the enhance request: unless it threw,
\* setTranslations(prev => [...prev, finalText]) and synthesizeSpeech up to
\* its fetch.
EnhanceResolved(p, outcome) ==
    /\ Running(p)
    /\ pipelines[p].pc = "enhance"
    /\ IF enhanceThrows(outcome)
       THEN /\ pipelines' = [pipelines EXCEPT ![p] = Returned]
            /\ UNCHANGED translations
       ELSE /\ translations' =
                   Append(translations, finalTextAfter(pipelines[p].basic, outcome))
            /\ pipelines' =
                   [pipelines EXCEPT ![p] =
                       [@ EXCEPT !.pc = "synthesize",
                                 !.finalText = finalTextAfter(pipelines[p].basic, outcome)]]
    /\ UNCHANGED <<status, error, partialText, finalTranscripts, audioUrls, refVars,
                   startPc, wsVars, capVars, audioSent, stopped,
                   otherVars>>

\* A synthesizeSpeech whose catch reports the failure as a session error.
SynthesizeResolvedFatal(p, outcome) ==
    /\ Running(p)
    /\ pipelines[p].pc = "synthesize"
    /\ audioUrls' =
           IF outcome = "ok"
           THEN Append(audioUrls, Synthesize(pipelines[p].finalText))
           ELSE audioUrls
    /\ pipelines' = [pipelines EXCEPT ![p] = Returned]
    /\ status' = IF outcome = "ok" THEN status ELSE "error"
    /\ UNCHANGED <<error, partialText, finalTranscripts, translations,
                   refVars, startPc, wsVars, capVars, audioSent, stopped,
                   otherVars>>

\* synthesizeSpeech after its request: setAudioUrls(prev => [...prev, audioUrl])
\* for a 2xx response with an audioUrl, nothing otherwise.
SynthesizeResolved(p, outcome) ==
    /\ Running(p)
    /\ pipelines[p].pc = "synthesize"
    /\ audioUrls' =
           IF outcome = "ok"
           THEN Append(audioUrls, Synthesize(pipelines[p].finalText))
           ELSE audioUrls
    /\ pipelines' = [pipelines EXCEPT ![p] = Returned]
    /\ UNCHANGED <<status, error, partialText, finalTranscripts, translations,
                   refVars, startPc, wsVars, capVars, audioSent, stopped,
                   otherVars>>

\* playAudio(index): the url it plays, or none.
playAudio(index) ==
    IF index \in 1..Len(audioUrls) THEN {audioUrls[index]} ELSE {}

\* --------------------------------------------------------- stream test page
MIN_SPEECH_FRAMES == 3

MAX_SILENCE_PAD_FRAMES == 6

\* The Connect button after fetchSignedUrl resolved: startFromSignedUrl, up to
\* the construction of the WebSocket (the one connection of the page that
\* is followed).
StartFromSignedUrl ==
    /\ streamStatus # "recording"
    /\ streamWs = "NONE"
    /\ streamStatus' = "connecting"
    /\ streamWs' = "CONNECTING"
    /\ UNCHANGED <<streamCapPc, vadState, frameLog, streamPartialText, finalLines,
                   streamWsRef, pageVars, lambdaCall, audioCall,
                   streamPipeVars, clientVars>>

\* The Connect button when fetchSignedUrl threw.
StreamSignedUrlFailed ==
    /\ streamStatus # "recording"
    /\ streamWs = "NONE"
    /\ streamStatus' = "error"
    /\ UNCHANGED <<streamWs, streamCapPc, vadState, frameLog, streamPartialText,
                   finalLines, streamWsRef, pageVars, lambdaCall, audioCall,
                   streamPipeVars, clientVars>>

\* ws.onopen of the page: wsRef.current = ws, beginCapture up to
\* `await getUserMedia(...)`.
StreamOnOpen ==
    /\ streamWs = "CONNECTING"
    /\ streamWs' = "OPEN"
    /\ streamWsRef' = TRUE
    /\ streamStatus' = "recording"
    /\ streamCapPc' = "getUserMedia"
    /\ UNCHANGED <<vadState, frameLog, streamPartialText, finalLines, pageVars,
                   lambdaCall, audioCall, streamPipeVars, clientVars>>

\* beginCapture from the stream on: the graph, a fresh vadState and
\* onaudioprocess.
BeginCaptureResolved ==
    /\ streamCapPc = "getUserMedia"
    /\ streamCapPc' = "running"
    /\ vadState' = NewVadState
    /\ UNCHANGED <<streamStatus, streamWs, frameLog, streamPartialText, finalLines,
                   streamWsRef, pageVars, lambdaCall, audioCall,
                   streamPipeVars, clientVars>>

\* getUserMedia rejected: the catch of beginCapture.
BeginCaptureRejected ==
    /\ streamCapPc = "getUserMedia"
    /\ streamCapPc' = "failed"
    /\ streamStatus' = "error"
    /\ UNCHANGED <<streamWs, vadState, frameLog, streamPartialText, finalLines,
                   streamWsRef, pageVars, lambdaCall, audioCall,
                   streamPipeVars, clientVars>>

\* vadUpdate with speechFrames kept over a below-threshold frame.
vadUpdateKeepsCount(v, loud) ==
    IF loud
    THEN [isSpeech |-> v.isSpeech \/ v.speechFrames + 1 >= MIN_SPEECH_FRAMES,
          silenceFrames |-> 0,
          speechFrames |-> v.speechFrames + 1]
    ELSE [v EXCEPT !.silenceFrames = v.silenceFrames + 1]

\* The counters of vadState after a frame whose RMS is (loud) or is not above
\* VAD_THRESHOLD.
vadUpdate(v, loud) ==
    IF loud
    THEN [isSpeech |-> v.isSpeech \/ v.speechFrames + 1 >= MIN_SPEECH_FRAMES,
          silenceFrames |-> 0,
          speechFrames |-> v.speechFrames + 1]
    ELSE [v EXCEPT !.silenceFrames = v.silenceFrames + 1, !.speechFrames = 0]

\* A shouldSend that waits for the debounce: frames are sent during speech only.
shouldSendSpeechOnly(v) == v.isSpeech

\* shouldSend of onaudioprocess.
shouldSend(v) == v.isSpeech \/ v.silenceFrames <= MAX_SILENCE_PAD_FRAMES

\* The end of onaudioprocess: isSpeech is reset after the frame was sent.
vadReset(v) ==
    IF v.isSpeech /\ v.silenceFrames > MAX_SILENCE_PAD_FRAMES
    THEN [v EXCEPT !.isSpeech = FALSE]
    ELSE v

\* processor.onaudioprocess of the page, for a frame that is or is not above
\* the threshold; it returns at once unless the socket is open.  frameLog
\* records the frame: whether it was loud, whether it was sent, and isSpeech
\* before and after it.
StreamOnAudioProcess(loud) ==
    /\ streamCapPc = "running"
    /\ streamWs = "OPEN"
    /\ Len(frameLog) < MaxFrames
    /\ LET v == vadUpdate(vadState, loud) IN
           /\ vadState' = vadReset(v)
           /\ frameLog' = Append(frameLog,
                  [loud |-> loud, sent |-> shouldSend(v),
                   wasSpeech |-> vadState.isSpeech, isSpeech |-> vadReset(v).isSpeech])
    /\ UNCHANGED <<streamStatus, streamWs, streamCapPc, streamPartialText, finalLines,
                   streamWsRef, pageVars, lambdaCall, audioCall,
                   streamPipeVars, clientVars>>

\* The `for (const r of results)` loop of the page from result i on: a
\* partial result overwrites partialText; a final one with a truthy text
\* clears it, is appended to finalLines and starts translateFinal (up to its
\* translate request).
RECURSIVE streamHandleResults(_, _, _)
streamHandleResults(results, i, acc) ==
    IF i > Len(results) THEN acc
    ELSE
        LET txt == results[i].Transcript IN
        IF results[i].IsPartial
        THEN streamHandleResults(results, i + 1, [acc EXCEPT !.partialText = txt])
        ELSE IF txt # ""
        THEN streamHandleResults(results, i + 1,
                 [partialText |-> "", finalLines |-> Append(acc.finalLines, txt),
                  pipelines |-> Append(acc.pipelines, NewPipeline(txt))])
        ELSE streamHandleResults(results, i + 1, acc)

\* What ws.onmessage of the page does to the status for a message: an
\* exception message sets it to 'error'.
streamStatusOnMessage(m) == IF m.kind = "exception" THEN "error" ELSE streamStatus

\* ws.onmessage of the page: a TranscriptEvent goes through the results loop,
\* an exception message sets status to 'error', anything else is logged.
StreamOnMessage(m) ==
    /\ streamWs = "OPEN"
    /\ LET before == [partialText |-> streamPartialText, finalLines |-> finalLines,
                       pipelines |-> streamPipelines]
           after ==
               IF m.kind = "transcript"
               THEN streamHandleResults(m.results, 1, before)
               ELSE before
       IN  /\ Len(after.finalLines) <= MaxFinals
           /\ streamPartialText' = after.partialText
           /\ finalLines' = after.finalLines
           /\ streamPipelines' = after.pipelines
    /\ streamStatus' = streamStatusOnMessage(m)
    /\ UNCHANGED <<streamWs, streamCapPc, vadState, frameLog, streamWsRef, pageVars,
                   lambdaCall, audioCall, streamTranslations, streamAudioUrls,
                   clientVars>>

\* ws.onerror of the page; the close event follows.
StreamOnError ==
    /\ streamWs \in {"CONNECTING", "OPEN", "CLOSING"}
    /\ streamWs' = "FAILED"
    /\ streamStatus' = "error"
    /\ UNCHANGED <<streamCapPc, vadState, frameLog, streamPartialText, finalLines,
                   streamWsRef, pageVars, lambdaCall, audioCall,
                   streamPipeVars, clientVars>>

\* ws.onclose of the page: setStatus('stopped'), cleanup().
StreamOnClose ==
    /\ streamWs \in {"OPEN", "CLOSING", "FAILED"}
    /\ streamWs' = "CLOSED"
    /\ streamStatus' = "stopped"
    /\ streamWsRef' = FALSE
    /\ UNCHANGED <<streamCapPc, vadState, frameLog, streamPartialText, finalLines,
                   pageVars, lambdaCall, audioCall,
                   streamPipeVars, clientVars>>

\* stop(): wsRef.current?.close(), cleanup(), setStatus('stopped').  The Stop
\* button is disabled while status is 'idle'.
StreamStop ==
    /\ streamStatus # "idle"
    /\ streamWs' = IF streamWsRef /\ streamWs \in {"CONNECTING", "OPEN"}
                   THEN "CLOSING" ELSE streamWs
    /\ streamWsRef' = FALSE
    /\ streamStatus' = "stopped"
    /\ UNCHANGED <<streamCapPc, vadState, frameLog, streamPartialText, finalLines,
                   pageVars, lambdaCall, audioCall,
                   streamPipeVars, clientVars>>

\* translateFinal calls of the page that have not returned.
StreamRunning(p) == p \in 1..Len(streamPipelines) /\ streamPipelines[p].pc # "done"

\* translateFinal after the translate request: a non-2xx response, a rejected
\* fetch and a malformed body throw into the catch, which logs; a response
\* without translatedText ends the call silently.
StreamTranslateResolved(p, outcome) ==
    /\ StreamRunning(p)
    /\ streamPipelines[p].pc = "translate"
    /\ streamPipelines' =
           [streamPipelines EXCEPT ![p] =
               IF outcome = "ok"
               THEN [@ EXCEPT !.pc = "enhance", !.basic = Translate(streamPipelines[p].text)]
               ELSE Returned]
    /\ UNCHANGED <<streamVars, streamTranslations, streamAudioUrls, pageVars,
                   lambdaCall, audioCall, clientVars>>

\* translateFinal after the enhance request: unless it threw,
\* setTranslations((prev) => [...prev, finalText]) and synthesizeSpeech up to
\* its fetch.
StreamEnhanceResolved(p, outcome) ==
    /\ StreamRunning(p)
    /\ streamPipelines[p].pc = "enhance"
    /\ IF enhanceThrows(outcome)
       THEN /\ streamPipelines' = [streamPipelines EXCEPT ![p] = Returned]
            /\ UNCHANGED streamTranslations
       ELSE /\ streamTranslations' =
                   Append(streamTranslations,
                          finalTextAfter(streamPipelines[p].basic, outcome))
            /\ streamPipelines' =
                   [streamPipelines EXCEPT ![p] =
                       [@ EXCEPT !.pc = "synthesize",
                                 !.finalText =
                                     finalTextAfter(streamPipelines[p].basic, outcome)]]
    /\ UNCHANGED <<streamVars, streamAudioUrls, pageVars, lambdaCall, audioCall,
                   clientVars>>

\* synthesizeSpeech of the page after its request: setAudioUrls for a 2xx
\* response with an audioUrl; a non-2xx response throws into its catch, which
\* logs.
StreamSynthesizeResolved(p, outcome) ==
    /\ StreamRunning(p)
    /\ streamPipelines[p].pc = "synthesize"
    /\ streamAudioUrls' =
           IF outcome = "ok"
           THEN Append(streamAudioUrls, Synthesize(streamPipelines[p].finalText))
           ELSE streamAudioUrls
    /\ streamPipelines' = [streamPipelines EXCEPT ![p] = Returned]
    /\ UNCHANGED <<streamVars, streamTranslations, pageVars, lambdaCall, audioCall,
                   clientVars>>

\* ------------------------------------------- transcribe-connection handler
\* A field that is not in the request body (undefined after destructuring).
Absent == "undefined"

\* The events the handler is invoked with: whether JSON.parse accepts the
\* body, the object it yields, with or without each field, and whether the
\* signer finds credentials (presign rejects without them).
Bodies ==
    [sourceLanguage : {Absent, "", "en-US", "es-US"},
     targetLanguage : {Absent, "", "es"},
     userId : {Absent, "self"},
     sampleRate : {Absent, "abc", "8000"}]

Events == [parses : BOOLEAN, body : Bodies, credentials : BOOLEAN]

\* The response of the catch block.
Failure ==
    [statusCode |-> 500,
     body |-> [error |-> "Failed to generate Transcribe connection",
               sessionId |-> Absent, signedUrl |-> <<>>]]

\* handler(event): the sessionId, the presigned URL for the language code and
\* the sample rate (each with its default), statusCode 200; statusCode 500 when
\* JSON.parse or presign throws.
handler(event) ==
    IF ~event.parses \/ ~event.credentials THEN Failure
    ELSE
        LET sampleRate ==
                IF event.body.sampleRate \in {Absent, "abc"}
                THEN "16000" ELSE event.body.sampleRate
            languageCode ==
                IF event.body.sourceLanguage \in {Absent, ""}
                THEN "en-US" ELSE event.body.sourceLanguage
        IN  [statusCode |-> 200,
             body |-> [error |-> Absent,
                       sessionId |-> "session",
                       signedUrl |-> <<"wss", languageCode, "pcm", sampleRate>>]]

\* The endpoint is invoked with an event.
Invoke(event) ==
    /\ lambdaCall.pc = "none"
    /\ lambdaCall' = [pc |-> "invoked", event |-> event]
    /\ UNCHANGED <<pageVars, streamVars, audioCall, streamPipeVars, clientVars>>

\* The handler returns its response.
Respond ==
    /\ lambdaCall.pc = "invoked"
    /\ lambdaCall' = [pc |-> "returned", event |-> lambdaCall.event,
                      response |-> handler(lambdaCall.event)]
    /\ UNCHANGED <<pageVars, streamVars, audioCall, streamPipeVars, clientVars>>

\* ------------------------------------------------- TranslationWebSocket
maxReconnectAttempts == 5

reconnectDelay == 1000

\* An entry of wsLog: the event, reconnectAttempts before it, the delay of the
\* setTimeout it set (0: none) and whether it called
\* onMaxReconnectAttemptsReached.
LogEntry(event, attempts, delay, maxReached) ==
    [event |-> event, attempts |-> attempts, delay |-> delay, maxReached |-> maxReached]

\* A handleReconnect that tests reconnectAttempts <= maxReconnectAttempts.
handleReconnectOffByOne(attempts) ==
    IF attempts <= maxReconnectAttempts
    THEN [reconnectAttempts |-> attempts + 1,
          delay |-> reconnectDelay * 2^((attempts + 1) - 1),
          maxReached |-> FALSE]
    ELSE [reconnectAttempts |-> attempts, delay |-> 0, maxReached |-> TRUE]

\* handleReconnect(): below maxReconnectAttempts the counter is incremented
\* and connect is set to run after reconnectDelay * 2^(reconnectAttempts - 1);
\* otherwise onMaxReconnectAttemptsReached is called.
handleReconnect(attempts) ==
    IF attempts < maxReconnectAttempts
    THEN [reconnectAttempts |-> attempts + 1,
          delay |-> reconnectDelay * 2^((attempts + 1) - 1),
          maxReached |-> FALSE]
    ELSE [reconnectAttempts |-> attempts, delay |-> 0, maxReached |-> TRUE]

\* The client calls connect(token): this.ws = new WebSocket(wsUrl).
Connect ==
    /\ ws = "NONE"
    /\ ws' = "CONNECTING"
    /\ UNCHANGED <<reconnectAttempts, reconnectTimer, wsLog, configVars, pageVars,
                   streamVars, streamPipeVars, lambdaCall, audioCall>>

\* this.ws.onopen: reconnectAttempts = 0, resolve().
ClientOnOpen ==
    /\ ws = "CONNECTING"
    /\ Len(wsLog) < MaxEvents
    /\ ws' = "OPEN"
    /\ reconnectAttempts' = 0
    /\ wsLog' = Append(wsLog, LogEntry("open", reconnectAttempts, 0, FALSE))
    /\ UNCHANGED <<reconnectTimer, configVars, pageVars, streamVars, streamPipeVars,
                   lambdaCall, audioCall>>

\* this.ws.onerror: reject(error); the connection has failed and its close
\* event follows.
ClientOnError ==
    /\ ws \in {"CONNECTING", "OPEN"}
    /\ ws' = "FAILED"
    /\ UNCHANGED <<reconnectAttempts, reconnectTimer, wsLog, configVars, pageVars,
                   streamVars, streamPipeVars, lambdaCall, audioCall>>

\* this.ws.onclose, of an open socket or of a failed one: handleReconnect().
ClientOnClose ==
    /\ ws \in {"OPEN", "FAILED"}
    /\ Len(wsLog) < MaxEvents
    /\ ws' = "CLOSED"
    /\ LET r == handleReconnect(reconnectAttempts) IN
           /\ reconnectAttempts' = r.reconnectAttempts
           /\ reconnectTimer' = r.delay
           /\ wsLog' = Append(wsLog,
                  LogEntry("close", reconnectAttempts, r.delay, r.maxReached))
    /\ UNCHANGED <<configVars, pageVars, streamVars, streamPipeVars, lambdaCall,
                   audioCall>>

\* The callback of setTimeout: this.connect(this.currentToken).
ReconnectTimerFired ==
    /\ reconnectTimer # 0
    /\ reconnectTimer' = 0
    /\ ws' = "CONNECTING"
    /\ UNCHANGED <<reconnectAttempts, wsLog, configVars, pageVars, streamVars,
                   streamPipeVars, lambdaCall, audioCall>>

\* ---------------------------------------------------------- amplify/config
\* The callers of configureAmplify: the effect of a page component, the auth
\* callback page, getDataClient.
Callers == {"HealthcareTranslation", "AuthCallback", "getDataClient"}

\* A configureAmplify that does not set isConfigured.
configureAmplifyNoFlag(configured, throws) ==
    IF ~configured
    THEN [outcome |-> IF throws THEN "threw" ELSE "configured", isConfigured |-> FALSE]
    ELSE [outcome |-> "skipped", isConfigured |-> configured]

\* configureAmplify(): unless isConfigured, Amplify.configure(outputs) is
\* executed and then isConfigured is set; when Amplify.configure throws, the
\* assignment is not reached.
configureAmplify(configured, throws) ==
    IF ~configured
    THEN [outcome |-> IF throws THEN "threw" ELSE "configured", isConfigured |-> ~throws]
    ELSE [outcome |-> "skipped", isConfigured |-> configured]

\* One call of configureAmplify by a caller; Amplify.configure, if it is
\* executed, throws or completes.
ConfigureAmplify(caller, throws) ==
    /\ Len(configureLog) < MaxCalls
    /\ LET r == configureAmplify(isConfigured, throws) IN
           /\ isConfigured' = r.isConfigured
           /\ configureLog' = Append(configureLog, [caller |-> caller, outcome |-> r.outcome])
    /\ UNCHANGED <<wsClientVars, pageVars, streamVars, streamPipeVars, lambdaCall,
                   audioCall>>

\* ------------------------------------------------------------ audio blocks
\* A sample is a rational <<numerator, denominator>>, NaN is <<0, 0>>.
NaN == <<0, 0>>

Samples == {<<k, SampleDen>> : k \in (-2 * SampleDen)..(2 * SampleDen)} \cup {NaN}

\* The blocks onaudioprocess is handed: a waveform within [-1, 1] of every
\* length, and every sample alone.
Waveform(n) ==
    [i \in 1..n |-> <<((3 * i) % (2 * SampleDen + 1)) - SampleDen, SampleDen>>]

Blocks == {Waveform(n) : n \in 0..MaxBlock} \cup {<<x>> : x \in Samples}

Rates == 1..MaxRate

\* A positive IEEE-754 double (the Number type) is a 53-bit significand in
\* two limbs, hi of 27 bits with its leading bit set and lo of 26 bits, and an
\* exponent e: its value is (hi * Limb + lo) * 2^(e - 52).
Limb == 2^26

\* The double of a positive integer below 2^27 (exact).
FromInt(n) ==
    LET len == CHOOSE l \in 1..27 : 2^(l - 1) <= n /\ n < 2^l
    IN  [hi |-> n * 2^(27 - len), lo |-> 0, e |-> len - 1]

\* Two-limb integers <<hi, lo>>: comparison, difference, twice.
bigGeq(x, y) == x[1] > y[1] \/ (x[1] = y[1] /\ x[2] >= y[2])

bigSub(x, y) ==
    IF x[2] >= y[2] THEN <<x[1] - y[1], x[2] - y[2]>>
    ELSE <<x[1] - y[1] - 1, x[2] + Limb - y[2]>>

bigTwice(x) == <<2 * x[1] + (2 * x[2]) \div Limb, (2 * x[2]) % Limb>>

\* k further bits of the quotient q of a long division by d with remainder
\* rem: <<quotient, remainder>>.
RECURSIVE quotientBits(_, _, _, _)
quotientBits(rem, d, k, q) ==
    IF k = 0 THEN <<q, rem>>
    ELSE LET twice == bigTwice(rem) IN
         IF bigGeq(twice, d)
         THEN quotientBits(bigSub(twice, d), d, k - 1, 2 * q + 1)
         ELSE quotientBits(twice, d, k - 1, 2 * q)

\* x / y of two positive doubles: the quotient rounded to the nearest double,
\* ties to even.
fdiv(x, y) ==
    LET X == <<x.hi, x.lo>>
        Y == <<y.hi, y.lo>>
        ge == bigGeq(X, Y)
        e == IF ge THEN x.e - y.e ELSE x.e - y.e - 1
        top == quotientBits(IF ge THEN bigSub(X, Y) ELSE bigSub(bigTwice(X), Y), Y, 26, 1)
        low == quotientBits(top[2], Y, 26, 0)
        rest == bigTwice(low[2])
        up == IF rest = Y THEN low[1] % 2 = 1 ELSE bigGeq(rest, Y)
        lo == IF up THEN low[1] + 1 ELSE low[1]
        hi == IF lo = Limb THEN top[1] + 1 ELSE top[1]
    IN  IF hi = 2 * Limb THEN [hi |-> Limb, lo |-> 0, e |-> e + 1]
        ELSE [hi |-> hi, lo |-> lo % Limb, e |-> e]

\* Math.round of a positive double below 2^26: the nearest integer, a half
\* goes up.
MathRound(x) ==
    IF x.e < -1 THEN 0
    ELSE IF x.e = -1 THEN 1
    ELSE (x.hi \div 2^(26 - x.e)) + ((x.hi \div 2^(25 - x.e)) % 2)

\* newLen of resampleTo16k: Math.round(input.length / ratio) with
\* ratio = srcRate / dstRate, both divisions in doubles.
newLen(length, srcRate, dstRate) ==
    IF length = 0 THEN 0
    ELSE MathRound(fdiv(FromInt(length), fdiv(FromInt(srcRate), FromInt(dstRate))))

\* input[i1] * (1 - frac) + input[i2] * frac for frac = r / dstRate.
interpolate(x1, x2, r, dstRate) ==
    IF x1 = NaN \/ x2 = NaN THEN NaN
    ELSE <<x1[1] * (dstRate - r) + x2[1] * r, SampleDen * dstRate>>

\* resampleTo16k(input, srcRate, dstRate): the input itself for equal rates,
\* otherwise newLen samples, the i-th interpolated at idx = i * ratio between
\* input[floor(idx)] and its successor (the sample values in exact
\* arithmetic; indices from 0 in the code, from 1 here).
resampleTo16k(input, srcRate, dstRate) ==
    IF srcRate = dstRate THEN input
    ELSE [k \in 1..newLen(Len(input), srcRate, dstRate) |->
             LET i1 == ((k - 1) * srcRate) \div dstRate
                 i2 == IF i1 + 1 < Len(input) - 1 THEN i1 + 1 ELSE Len(input) - 1
             IN  interpolate(input[i1 + 1], input[i2 + 1],
                             ((k - 1) * srcRate) % dstRate, dstRate)]

\* A floatTo16BitPCM that does not clamp.
clampNone(x) == x

\* Math.max(-1, Math.min(1, x)).
clamp(x) ==
    IF x = NaN THEN NaN
    ELSE IF x[1] > x[2] THEN <<1, 1>>
    ELSE IF x[1] < -x[2] THEN <<-1, 1>>
    ELSE x

\* DataView.setInt16(value, littleEndian = true): the value is truncated
\* towards zero (NaN is 0) and taken modulo 2^16; low byte first.
setInt16(num, den) ==
    LET int == IF den = 0 THEN 0
               ELSE IF num >= 0 THEN num \div den ELSE -((-num) \div den)
        u == int % 65536
    IN  <<u % 256, u \div 256>>

\* The two bytes floatTo16BitPCM writes for one sample:
\* s < 0 ? s * 0x8000 : s * 0x7fff of the clamped sample s.
encodeSample(x) ==
    LET s == clamp(x) IN
    IF s = NaN THEN setInt16(0, 0)
    ELSE IF s[1] < 0 THEN setInt16(s[1] * 32768, s[2])
    ELSE setInt16(s[1] * 32767, s[2])

\* floatTo16BitPCM(input): input.length * 2 bytes.
floatTo16BitPCM(input) ==
    [j \in 1..(2 * Len(input)) |-> encodeSample(input[(j + 1) \div 2])[2 - (j % 2)]]

\* onaudioprocess is handed a block, with the rate of the audio context and
\* the rate requested.
Capture(input, srcRate, dstRate) ==
    /\ audioCall.pc = "none"
    /\ audioCall' = [pc |-> "captured", input |-> input, srcRate |-> srcRate,
                     dstRate |-> dstRate, resampled |-> <<>>, pcm |-> <<>>]
    /\ UNCHANGED <<pageVars, streamVars, lambdaCall, streamPipeVars, clientVars>>

\* resampled = resampleTo16k(input, audioCtx.sampleRate, sampleRate).
Resample ==
    /\ audioCall.pc = "captured"
    /\ audioCall' =
           [audioCall EXCEPT
               !.pc = "resampled",
               !.resampled = resampleTo16k(audioCall.input, audioCall.srcRate,
                                           audioCall.dstRate)]
    /\ UNCHANGED <<pageVars, streamVars, lambdaCall, streamPipeVars, clientVars>>

\* floatTo16BitPCM(resampled), the body of the AudioEvent.
Encode ==
    /\ audioCall.pc = "resampled"
    /\ audioCall' = [audioCall EXCEPT !.pc = "encoded",
                                      !.pcm = floatTo16BitPCM(audioCall.resampled)]
    /\ UNCHANGED <<pageVars, streamVars, lambdaCall, streamPipeVars, clientVars>>

\* ------------------------------------------------------------ specification
\* The session state machine over the sessions S: start, transport, capture,
\* audio and teardown.
SessionNext(S) ==
    \/ \E s \in S : StartRecording(s)
    \/ \E s \in S : SignedUrlResolved(s)
    \/ \E s \in S : SignedUrlFailed(s)
    \/ \E s \in S, supported \in BOOLEAN : WsOnOpen(s, supported)
    \/ \E s \in S, suspended \in BOOLEAN : GetUserMediaResolved(s, suspended)
    \/ \E s \in S, name \in MicErrorNames : GetUserMediaRejected(s, name)
    \/ \E s \in S : ResumeResolved(s)
    \/ \E s \in S : ResumeRejected(s)
    \/ \E s \in S : OnAudioProcess(s)
    \/ \E s \in S : WsOnError(s)
    \/ \E s \in S : WsOnClose(s)
    \/ StopRecording
    \/ Cleanup

\* Inbound messages.
TranscriptNext == \E s \in Sessions, m \in Messages : WsOnMessage(s, m)

\* The resumptions of the per-utterance pipelines.
PipelineNext ==
    \/ \E p \in 1..MaxFinals, outcome \in Outcomes : TranslateResolved(p, outcome)
    \/ \E p \in 1..MaxFinals, outcome \in Outcomes : EnhanceResolved(p, outcome)
    \/ \E p \in 1..MaxFinals, outcome \in Outcomes : SynthesizeResolved(p, outcome)

Next == SessionNext(Sessions) \/ TranscriptNext \/ PipelineNext \/ ClearSession

\* The whole page.
Spec == Init /\ [][Next]_vars

\* The runs in which no message arrives and Clear is not pressed.
SpecSession == Init /\ [][SessionNext(Sessions)]_vars

\* The runs in which no pipeline resumes from its first request.
SpecTranscript ==
    Init /\ [][SessionNext(Sessions) \/ TranscriptNext \/ ClearSession]_vars

\* The runs of the first session in which Clear is not pressed.
SpecPipeline == Init /\ [][SessionNext({1}) \/ TranscriptNext \/ PipelineNext]_vars

\* The runs of the first session with the Clear button.
SpecClear ==
    Init /\ [][SessionNext({1}) \/ TranscriptNext \/ PipelineNext \/ ClearSession]_vars

\* One invocation of the transcribe-connection endpoint.
LambdaNext ==
    \/ \E event \in Events : Invoke(event)
    \/ Respond

SpecLambda == Init /\ [][LambdaNext]_vars

\* One audio block through the resampler and the encoder.
AudioNext ==
    \/ \E input \in Blocks, srcRate \in Rates, dstRate \in Rates :
           Capture(input, srcRate, dstRate)
    \/ Resample
    \/ Encode

SpecAudio == Init /\ [][AudioNext]_vars

\* The runs of the first two sessions in which no pipeline resumes.
SpecFinals ==
    Init /\ [][SessionNext({1, 2}) \/ TranscriptNext \/ ClearSession]_vars

\* The stream test page: its connection, its capture and its audio frames.
StreamNext ==
    \/ StartFromSignedUrl
    \/ StreamSignedUrlFailed
    \/ StreamOnOpen
    \/ BeginCaptureResolved
    \/ BeginCaptureRejected
    \/ \E loud \in BOOLEAN : StreamOnAudioProcess(loud)
    \/ StreamOnError
    \/ StreamOnClose
    \/ StreamStop

SpecStream == Init /\ [][StreamNext]_vars

\* The connection of the stream test page and its inbound messages.
StreamTranscriptNext ==
    \/ StartFromSignedUrl
    \/ StreamOnOpen
    \/ StreamOnClose
    \/ \E m \in Messages : StreamOnMessage(m)

\* The inbound messages of both pages: the first session of the session page
\* and the connection of the stream test page.
SpecMessages ==
    Init /\ [][SessionNext({1}) \/ TranscriptNext \/ StreamTranscriptNext]_vars

\* A TranslationWebSocket from its connect call on.
ClientNext ==
    \/ Connect
    \/ ClientOnOpen
    \/ ClientOnError
    \/ ClientOnClose
    \/ ReconnectTimerFired

SpecClient == Init /\ [][ClientNext]_vars

\* The configureAmplify calls of a process.
ConfigNext == \E caller \in Callers, throws \in BOOLEAN : ConfigureAmplify(caller, throws)

SpecConfig == Init /\ [][ConfigNext]_vars

\* The resumptions of pipeline p after a request that succeeded.
Succeeds(p) ==
    \/ TranslateResolved(p, "ok")
    \/ EnhanceResolved(p, "ok")
    \/ SynthesizeResolved(p, "ok")

\* The runs of the first session in which every request of every pipeline
\* succeeds; a request that was issued is answered, and the resumption runs.
SpecSucceeding ==
    /\ Init
    /\ [][SessionNext({1}) \/ TranscriptNext \/ \E p \in 1..MaxFinals : Succeeds(p)]_vars
    /\ \A p \in 1..MaxFinals : WF_vars(Succeeds(p))

\* The resumptions of the translateFinal calls of the stream test page.
StreamPipelineNext ==
    \/ \E p \in 1..MaxFinals, outcome \in Outcomes : StreamTranslateResolved(p, outcome)
    \/ \E p \in 1..MaxFinals, outcome \in Outcomes : StreamEnhanceResolved(p, outcome)
    \/ \E p \in 1..MaxFinals, outcome \in Outcomes : StreamSynthesizeResolved(p, outcome)

\* The transcripts and the pipelines of either page.  The pages are two routes
\* and a tab shows one of them: a run is of the first session of the session
\* page while the stream test page is as first rendered, or of the connection
\* of the stream test page while the session page is.
StagesNext ==
    \/ \E s \in {1} : StreamInit /\ StartRecording(s)
    \/ \E s \in {1} : StreamInit /\ SignedUrlResolved(s)
    \/ \E s \in {1} : StreamInit /\ SignedUrlFailed(s)
    \/ \E s \in {1}, supported \in BOOLEAN : StreamInit /\ WsOnOpen(s, supported)
    \/ \E s \in {1}, suspended \in BOOLEAN :
           StreamInit /\ GetUserMediaResolved(s, suspended)
    \/ \E s \in {1}, name \in MicErrorNames : StreamInit /\ GetUserMediaRejected(s, name)
    \/ \E s \in {1} : StreamInit /\ ResumeResolved(s)
    \/ \E s \in {1} : StreamInit /\ ResumeRejected(s)
    \/ \E s \in {1} : StreamInit /\ OnAudioProcess(s)
    \/ \E s \in {1} : StreamInit /\ WsOnError(s)
    \/ \E s \in {1} : StreamInit /\ WsOnClose(s)
    \/ StreamInit /\ StopRecording
    \/ StreamInit /\ Cleanup
    \/ \E s \in {1}, m \in Messages : StreamInit /\ WsOnMessage(s, m)
    \/ \E p \in 1..MaxFinals, outcome \in Outcomes :
           StreamInit /\ TranslateResolved(p, outcome)
    \/ \E p \in 1..MaxFinals, outcome \in Outcomes :
           StreamInit /\ EnhanceResolved(p, outcome)
    \/ \E p \in 1..MaxFinals, outcome \in Outcomes :
           StreamInit /\ SynthesizeResolved(p, outcome)
    \/ PageInit /\ StartFromSignedUrl
    \/ PageInit /\ StreamOnOpen
    \/ PageInit /\ StreamOnClose
    \/ \E m \in Messages : PageInit /\ StreamOnMessage(m)
    \/ \E p \in 1..MaxFinals, outcome \in Outcomes :
           PageInit /\ StreamTranslateResolved(p, outcome)
    \/ \E p \in 1..MaxFinals, outcome \in Outcomes :
           PageInit /\ StreamEnhanceResolved(p, outcome)
    \/ \E p \in 1..MaxFinals, outcome \in Outcomes :
           PageInit /\ StreamSynthesizeResolved(p, outcome)

SpecStages == Init /\ [][StagesNext]_vars

\* ------------------------------------------------------------------ claims
\* The places a transcript has in finalTranscripts.
IndexOf(text) == {i \in 1..Len(finalTranscripts) : finalTranscripts[i] = text}

\* The session of the latest startRecording call, or NoRef before the first.
CurrentSession ==
    IF \A s \in Sessions : startPc[s] = "idle" THEN NoRef
    ELSE CHOOSE s \in Sessions :
             /\ startPc[s] # "idle"
             /\ \A r \in Sessions : r > s => startPc[r] = "idle"

ExceptionMessage == [kind |-> "exception", results |-> <<>>]

\* C1: every entry of translations is the basic or the enhanced translation
\* of the transcript at the same index of finalTranscripts.
C1_TranslationsAligned ==
    \A i \in 1..Len(translations) :
        /\ i <= Len(finalTranscripts)
        /\ translations[i] \in {Translate(finalTranscripts[i]),
                                Enhance(Translate(finalTranscripts[i]))}

\* C2: every entry of audioUrls is the audio synthesized from the translation
\* at the same index, so playAudio(i) plays the audio of translations[i] or
\* nothing.
C2_AudioAligned ==
    /\ Len(audioUrls) <= Len(translations)
    /\ \A i \in 1..Len(translations) :
           playAudio(i) \subseteq {Synthesize(translations[i])}

\* C3: when the enhance request of a pipeline fails in any way, the basic
\* translation is appended to translations unmodified and the pipeline goes on
\* to synthesize that basic text.
C3_EnhanceFallback ==
    [][\A p \in 1..MaxFinals, outcome \in Outcomes \ {"ok"} :
           EnhanceResolved(p, outcome) =>
               /\ translations' = Append(translations, pipelines[p].basic)
               /\ pipelines'[p].pc = "synthesize"
               /\ pipelines'[p].finalText = pipelines[p].basic]_vars

\* No pipeline but p is in flight.
OnlyInFlight(p) ==
    \A q \in 1..Len(pipelines) : q # p => pipelines[q].pc = "done"

\* C4: with no other pipeline in flight, a pipeline whose transcript is in
\* finalTranscripts and whose three requests succeed appends the enhanced text
\* to translations and then the audioUrl to audioUrls, each as one entry at
\* the index its transcript has in finalTranscripts.
C4_EndToEnd ==
    [][\A p \in 1..MaxFinals :
           /\ (/\ EnhanceResolved(p, "ok")
               /\ OnlyInFlight(p)
               /\ IndexOf(pipelines[p].text) # {})
              => /\ translations' = Append(translations, Enhance(pipelines[p].basic))
                 /\ Len(translations') \in IndexOf(pipelines[p].text)
           /\ (/\ SynthesizeResolved(p, "ok")
               /\ OnlyInFlight(p)
               /\ pipelines[p].finalText = Enhance(pipelines[p].basic)
               /\ IndexOf(pipelines[p].text) # {})
              => /\ audioUrls' = Append(audioUrls, Synthesize(pipelines[p].finalText))
                 /\ Len(audioUrls') \in IndexOf(pipelines[p].text)]_vars

\* C5: in every state, cleanup (and, while recording, stopRecording) leaves
\* the WebSocket of the current session neither connecting nor open.
C5_TeardownClosesTransport ==
    CurrentSession # NoRef =>
        /\ cleanup(Resources).readyState[CurrentSession] \notin {"CONNECTING", "OPEN"}
        /\ status = "recording" =>
               stopRecording(Resources).readyState[CurrentSession]
                   \notin {"CONNECTING", "OPEN"}

\* A second teardown after the teardown that returned T: what it returns.
Again(teardown(_), T) == teardown([T EXCEPT !.issued = {}])

\* T has all three refs null, and a second teardown issues no call and
\* changes nothing.
Settled(teardown(_), T) ==
    /\ T.wsRef = NoRef
    /\ T.mediaStreamRef = NoRef
    /\ T.processorRef = NoRef
    /\ Again(teardown, T).issued = {}
    /\ Again(teardown, T) = [T EXCEPT !.issued = {}]

\* C6: in every state, after cleanup or stopRecording the three refs are null
\* and a second cleanup or stopRecording issues no close, track stop or
\* disconnect and leaves the state as the first left it.
C6_TeardownIdempotent ==
    /\ Settled(cleanup, cleanup(Resources))
    /\ Settled(stopRecording, cleanup(Resources))
    /\ Settled(cleanup, stopRecording(Resources))
    /\ Settled(stopRecording, stopRecording(Resources))

\* A teardown has acted on a session that was recording: its socket is
\* closing, its tracks are stopped, its processor is disconnected.
C6_Witness ==
    /\ wsRef = NoRef /\ mediaStreamRef = NoRef /\ processorRef = NoRef
    /\ \E s \in Sessions :
           /\ readyState[s] = "CLOSING"
           /\ capPc[s] = "running"
           /\ ~streamLive[s]
           /\ ~procConnected[s]

\* C7: once stopRecording has run on a recording session, no AudioEvent is
\* sent on the transport it stopped.
C7_NoAudioAfterStop ==
    [][\A s \in stopped : audioSent'[s] = audioSent[s]]_vars

\* A stopped transport whose audio callback is installed and can still count
\* a send.
C7_Witness ==
    \E s \in stopped :
        /\ capPc[s] = "running"
        /\ audioSent[s] < MaxAudio
        /\ readyState[s] # "OPEN"

\* C8: once status is 'error' it stays 'error' until startRecording is invoked.
C8_ErrorIsTerminal ==
    [][status = "error" =>
           \/ status' = "error"
           \/ \E s \in Sessions : StartRecording(s)]_vars

\* C9: while a transport is open, an inbound exception message sets status to
\* 'error'.
C9_ExceptionSetsError ==
    (\E s \in Sessions : readyState[s] = "OPEN") =>
        statusOnMessage(ExceptionMessage) = "error"

\* C10: when startRecording is invoked, partialText is empty and
\* finalTranscripts, translations and audioUrls are empty lists.
C10_StartResetsSession ==
    [][(\E s \in Sessions : StartRecording(s)) =>
           /\ partialText' = ""
           /\ finalTranscripts' = <<>>
           /\ translations' = <<>>
           /\ audioUrls' = <<>>]_vars

\* C13: isSpeech goes from false to true only in a frame that is at least the
\* MIN_SPEECH_FRAMES-th of a run of consecutive above-threshold frames.
C13_VadDebounce ==
    \A k \in 1..Len(frameLog) :
        (~frameLog[k].wasSpeech /\ frameLog[k].isSpeech) =>
            /\ k >= MIN_SPEECH_FRAMES
            /\ \A j \in (k - MIN_SPEECH_FRAMES + 1)..k : frameLog[j].loud

\* isSpeech was set although, earlier, single above-threshold frames were
\* followed by below-threshold ones.
C13_Witness ==
    \E k \in 1..Len(frameLog) :
        /\ ~frameLog[k].wasSpeech
        /\ frameLog[k].isSpeech
        /\ k >= 7
        /\ frameLog[1].loud /\ ~frameLog[2].loud
        /\ frameLog[3].loud /\ ~frameLog[4].loud

\* C14: after an above-threshold frame that leaves isSpeech true, of the
\* below-threshold frames that follow exactly the first MAX_SILENCE_PAD_FRAMES
\* are sent, and isSpeech is false after every later one.
C14_VadPadding ==
    \A k \in 1..Len(frameLog), j \in 1..MaxFrames :
        (/\ frameLog[k].loud
         /\ frameLog[k].isSpeech
         /\ k + j <= Len(frameLog)
         /\ \A i \in 1..j : ~frameLog[k + i].loud)
        => /\ frameLog[k + j].sent <=> j <= MAX_SILENCE_PAD_FRAMES
           /\ j > MAX_SILENCE_PAD_FRAMES => ~frameLog[k + j].isSpeech

\* The results are partial ones, at least one.
Partials(results) ==
    /\ Len(results) >= 1
    /\ \A i \in 1..Len(results) : results[i].IsPartial

\* The TranscriptEvents that carry a run of partial results and nothing else.
PartialMessages == {m \in Messages : m.kind = "transcript" /\ Partials(m.results)}

\* C11: when a run of consecutive partial results has been processed, on
\* either page, partialText is the text of the last of them, and the final
\* transcripts, the translations and the audio urls are as they were.
C11_PartialOverwrite ==
    [][\A m \in PartialMessages :
           /\ (\E s \in Sessions : WsOnMessage(s, m)) =>
                  /\ partialText' = m.results[Len(m.results)].Transcript
                  /\ UNCHANGED <<finalTranscripts, translations, audioUrls>>
           /\ StreamOnMessage(m) =>
                  /\ streamPartialText' = m.results[Len(m.results)].Transcript
                  /\ UNCHANGED finalLines]_vars

\* On both pages the second of two partial results is displayed, over
\* transcripts already final.
C11_Witness ==
    /\ partialText = "q" /\ finalTranscripts # <<>>
    /\ streamPartialText = "q" /\ finalLines # <<>>

\* The texts of the final results of `results` whose trimmed text is not
\* empty, in the order of `results`.
RECURSIVE FinalTexts(_, _)
FinalTexts(results, i) ==
    IF i > Len(results) THEN <<>>
    ELSE IF ~results[i].IsPartial /\ results[i].Transcript \notin {"", Blank}
    THEN <<results[i].Transcript>> \o FinalTexts(results, i + 1)
    ELSE FinalTexts(results, i + 1)

\* The TranscriptEvents in which every transcript is a string.
WellFormedMessages ==
    {m \in Messages :
        /\ m.kind = "transcript"
        /\ \A i \in 1..Len(m.results) : m.results[i].Transcript # NonString}

\* A session can be delivered a TranscriptEvent.
Receiving == \E s \in Sessions : readyState[s] = "OPEN" /\ audioSent[s] > 0

\* C12: in every state in which a TranscriptEvent can be delivered, ws.onmessage
\* appends the texts of its final results with non-empty trimmed text, each
\* once and in the order delivered, to the end of finalTranscripts, starts one
\* pipeline for each, in that order, and leaves partialText empty when the
\* last result is such a final one; and no step but clearSession removes or
\* reorders an entry of finalTranscripts.
C12_FinalResults ==
    /\ [](Receiving =>
             \A m \in WellFormedMessages :
                 SpokenInOrder(m.results, 1, Len(pipelines)) =>
                     LET texts == FinalTexts(m.results, 1)
                         after == handleResults(m.results, 1,
                                      [partialText |-> partialText,
                                       finalTranscripts |-> finalTranscripts,
                                       pipelines |-> pipelines])
                     IN  /\ after.finalTranscripts = finalTranscripts \o texts
                         /\ after.pipelines =
                                pipelines \o [k \in 1..Len(texts) |-> NewPipeline(texts[k])]
                         /\ (/\ Len(m.results) >= 1
                             /\ ~m.results[Len(m.results)].IsPartial
                             /\ m.results[Len(m.results)].Transcript \notin {"", Blank})
                            => after.partialText = "")
    /\ [][~ClearSession =>
              /\ Len(finalTranscripts') >= Len(finalTranscripts)
              /\ SubSeq(finalTranscripts', 1, Len(finalTranscripts)) = finalTranscripts]_vars

\* After a clear, a partial result and then the final result of the second
\* utterance: it is the only transcript, its pipeline is the second.
C12_Witness ==
    /\ finalTranscripts = <<"b">>
    /\ Len(pipelines) = 2
    /\ pipelines[2] = NewPipeline("b")
    /\ partialText = ""

\* The WebSockets created so far, and the startRecording calls made so far.
Connections == {s \in Sessions : readyState[s] # "NONE"}

Starts == {s \in Sessions : startPc[s] # "idle"}

\* C15: a WebSocket is created only by the startRecording call it belongs to,
\* when its fetchSignedUrl resolves, so there are never more WebSockets than
\* startRecording calls; a close or an error event creates none.
C15_NoAutoReconnect ==
    [][/\ \A s \in Sessions :
              (readyState[s] = "NONE" /\ readyState'[s] # "NONE") =>
                  /\ startPc[s] = "fetchSignedUrl"
                  /\ SignedUrlResolved(s)
       /\ Connections' \subseteq Starts'
       /\ Cardinality(Connections') <= Cardinality(Starts')]_vars

\* The transport of the first session was lost and its close event handled;
\* the second exists because the user started again.
C15_Witness ==
    /\ readyState[1] = "CLOSED"
    /\ closeFired[1]
    /\ error = "null"
    /\ readyState[2] = "CONNECTING"

\* C19: a pipeline that resumes after clearSession removed its transcript
\* from finalTranscripts appends nothing to translations or audioUrls.
C19_ResumeRevalidates ==
    [][\A p \in 1..MaxFinals, outcome \in Outcomes :
           (/\ EnhanceResolved(p, outcome) \/ SynthesizeResolved(p, outcome)
            /\ IndexOf(pipelines[p].text) = {})
           => UNCHANGED <<translations, audioUrls>>]_vars

\* C20: when stopRecording has run on a session and every callback of that
\* session has run (its close event, its getUserMedia and resume requests),
\* its microphone stream is stopped and in no ref, and its processor is
\* disconnected.
C20_TeardownReleasesDevice ==
    \A s \in stopped :
        (closeFired[s] /\ capPc[s] \notin {"getUserMedia", "resume"}) =>
            /\ ~streamLive[s]
            /\ mediaStreamRef # s
            /\ ~procConnected[s]

\* The body of the request is an object without sourceLanguage or without
\* targetLanguage.
LacksLanguage(event) ==
    /\ event.parses
    /\ event.body.sourceLanguage = Absent \/ event.body.targetLanguage = Absent

\* C16: the endpoint answers a request without sourceLanguage or without
\* targetLanguage with status 400 and an error, without signedUrl or
\* sessionId; a response with status 200 and a signedUrl is for a request with
\* both.
C16_ValidatesInput ==
    lambdaCall.pc = "returned" =>
        /\ LacksLanguage(lambdaCall.event) =>
               /\ lambdaCall.response.statusCode = 400
               /\ lambdaCall.response.body.error # Absent
               /\ lambdaCall.response.body.signedUrl = <<>>
               /\ lambdaCall.response.body.sessionId = Absent
        /\ lambdaCall.response.statusCode = 200 =>
               /\ lambdaCall.response.body.signedUrl # <<>>
               /\ ~LacksLanguage(lambdaCall.event)

Int16At(bytes, j) ==
    LET u == bytes[2 * j - 1] + 256 * bytes[2 * j]
    IN  IF u >= 32768 THEN u - 65536 ELSE u

\* C18: the encoded block has one 16-bit value for each sample: 32767 for a
\* sample of 1.0 or above, -32768 for one of -1.0 or below, and between them a
\* value of the sign of the sample.
C18_PcmBounds ==
    audioCall.pc = "encoded" =>
        /\ Len(audioCall.pcm) = 2 * Len(audioCall.resampled)
        /\ \A j \in 1..Len(audioCall.resampled) :
               LET x == audioCall.resampled[j]
                   v == Int16At(audioCall.pcm, j)
               IN  /\ v \in -32768..32767
                   /\ x # NaN =>
                          /\ x[1] >= x[2] => v = 32767
                          /\ x[1] <= -x[2] => v = -32768
                          /\ x[1] >= 0 => v \in 0..32767
                          /\ x[1] < 0 => v \in -32768..0

\* A sample above 1.0 or below -1.0 was encoded, as 32767 or as -32768.
C18_Witness ==
    /\ audioCall.pc = "encoded"
    /\ \E j \in 1..Len(audioCall.resampled) :
           LET x == audioCall.resampled[j] IN
           /\ x # NaN
           /\ x[1] > x[2] \/ x[1] < -x[2]
           /\ Int16At(audioCall.pcm, j) \in {32767, -32768}

\* The WebSockets that are connecting or open, and the live microphone streams.
ActiveTransports == {s \in Sessions : readyState[s] \in {"CONNECTING", "OPEN"}}

LiveStreams == {s \in Sessions : streamLive[s]}

\* C21: in every state at most one WebSocket of the page is connecting or open
\* and at most one microphone stream is live.
C21_ExclusiveOwnership ==
    /\ Cardinality(ActiveTransports) <= 1
    /\ Cardinality(LiveStreams) <= 1

\* C22: a close or an error event of the WebSocket of an earlier session,
\* handled after a later startRecording call, leaves the status and the
\* WebSocket, the microphone stream and the processor of the latest session as
\* they are.
C22_StaleEventsIsolated ==
    [][\A s \in Sessions :
           (s < CurrentSession /\ (WsOnClose(s) \/ WsOnError(s))) =>
               /\ status' = status
               /\ readyState'[CurrentSession] = readyState[CurrentSession]
               /\ streamLive'[CurrentSession] = streamLive[CurrentSession]
               /\ procConnected'[CurrentSession] = procConnected[CurrentSession]]_vars

\* C23: status becomes 'recording' only from 'connecting', and only in the
\* ws.onopen of the WebSocket of the latest startRecording call.
C23_EntryIntoRecording ==
    [][(status # "recording" /\ status' = "recording") =>
           /\ status = "connecting"
           /\ CurrentSession # NoRef
           /\ WsOnOpen(CurrentSession, TRUE)]_vars

\* C24: when the translate request of a pipeline ends in a non-2xx response or
\* is rejected, the pipeline returns without a further request, translations
\* and audioUrls stay as they are, and every other pipeline stays where it is,
\* free to go on; a pipeline that has returned never resumes.
C24_TranslateFailureLocal ==
    [][/\ \A p \in 1..MaxFinals, outcome \in {"httpError", "rejected"} :
              TranslateResolved(p, outcome) =>
                  /\ pipelines'[p].pc = "done"
                  /\ UNCHANGED <<translations, audioUrls>>
                  /\ \A q \in 1..Len(pipelines) : q # p => pipelines'[q] = pipelines[q]
       /\ \A p \in 1..Len(pipelines) :
              pipelines[p].pc = "done" => pipelines'[p].pc = "done"]_vars

\* The pipeline of the first utterance has returned with nothing appended,
\* and the pipeline of the second, started before that, has run to its end:
\* its translation and its audio are the only entries.
C24_Witness ==
    /\ finalTranscripts = <<"a", "b">>
    /\ Len(pipelines) = 2
    /\ pipelines[1].pc = "done" /\ pipelines[2].pc = "done"
    /\ translations = <<Enhance(Translate("b"))>>
    /\ audioUrls = <<Synthesize(Enhance(Translate("b")))>>

\* C25: no resumption of a per-utterance pipeline, on either page, whatever
\* the outcome of its request, changes the status, the error shown, the
\* partial text or the final transcripts.
C25_StagesLeaveStatus ==
    [][\A p \in 1..MaxFinals, outcome \in Outcomes :
           /\ (\/ TranslateResolved(p, outcome)
               \/ EnhanceResolved(p, outcome)
               \/ SynthesizeResolved(p, outcome))
              => UNCHANGED <<status, error, partialText, finalTranscripts>>
           /\ (\/ StreamTranslateResolved(p, outcome)
               \/ StreamEnhanceResolved(p, outcome)
               \/ StreamSynthesizeResolved(p, outcome))
              => UNCHANGED <<streamStatus, streamPartialText, finalLines>>]_vars

\* While the session is recording and shows a partial text, the pipeline of
\* the first utterance has failed and the pipeline of the second has ended
\* after its translation, without audio.
C25_Witness ==
    /\ status = "recording"
    /\ error = "null"
    /\ partialText = "p"
    /\ finalTranscripts = <<"a", "b">>
    /\ Len(pipelines) = 2
    /\ pipelines[1].pc = "done" /\ pipelines[2].pc = "done"
    /\ translations = <<Translate("b")>>
    /\ audioUrls = <<>>

\* A text frame, bytes that are no event-stream message, a TranscriptEvent
\* whose body is not JSON, an event of another type.
NonTranscriptMessages ==
    {m \in Messages : m.kind \in {"text", "undecodable", "badJson", "otherEvent"}}

\* C26: on either page, while the socket is open, ws.onmessage takes a text
\* frame, undecodable bytes, a body that is not JSON and an event of another
\* type, and changes none of the status, the partial text, the final
\* transcripts, the translations and the audio urls; the socket stays open
\* and no pipeline is touched, so the transcript events after it are handled
\* as before it.
C26_NonTranscriptNonFatal ==
    \A m \in NonTranscriptMessages :
        /\ \A s \in Sessions :
               readyState[s] = "OPEN" =>
                   /\ ENABLED WsOnMessage(s, m)
                   /\ ~ENABLED <<WsOnMessage(s, m)>>_<<status, partialText, finalTranscripts,
                                                       translations, audioUrls, readyState,
                                                       pipelines>>
        /\ streamWs = "OPEN" =>
               /\ ENABLED StreamOnMessage(m)
               /\ ~ENABLED <<StreamOnMessage(m)>>_<<streamStatus, streamPartialText,
                                                    finalLines, streamTranslations,
                                                    streamAudioUrls, streamWs,
                                                    streamPipelines>>

\* A recording session with an open socket that shows a partial text, a final
\* transcript and its translation, and whose second pipeline is in flight.
C26_Witness ==
    /\ readyState[1] = "OPEN"
    /\ status = "recording"
    /\ partialText = "q"
    /\ finalTranscripts = <<"a", "b">>
    /\ translations = <<Enhance(Translate("a"))>>
    /\ Len(pipelines) = 2 /\ pipelines[2].pc = "translate"

\* x is an entry of the sequence.
InSeq(x, seq) == \E i \in 1..Len(seq) : seq[i] = x

\* C27: stopRecording and the close event that follows leave every pipeline,
\* translations and audioUrls as they are; and when every request succeeds, a
\* pipeline that is in flight once stopRecording has run leads to its
\* translation in translations and to its audio in audioUrls.
C27_PipelinesSurviveStop ==
    /\ [][(StopRecording \/ \E s \in Sessions : WsOnClose(s)) =>
              UNCHANGED <<pipelines, translations, audioUrls>>]_vars
    /\ \A p \in 1..MaxFinals :
           (stopped # {} /\ Running(p)) ~>
               /\ InSeq(Enhance(Translate(Utterances[p])), translations)
               /\ InSeq(Synthesize(Enhance(Translate(Utterances[p]))), audioUrls)

\* The session was stopped and its socket has closed while the pipeline of
\* the second utterance waits for its translate request.
C27_Witness ==
    /\ stopped = {1}
    /\ closeFired[1]
    /\ status = "stopped"
    /\ Len(pipelines) = 2
    /\ pipelines[2].pc = "translate"
    /\ translations = <<Enhance(Translate("a"))>>

\* C28: every above-threshold frame handed to onaudioprocess while the socket
\* is open is sent, whether or not isSpeech is set; a frame that is not sent
\* is below the threshold, finds isSpeech false and ends a run of more than
\* MAX_SILENCE_PAD_FRAMES consecutive below-threshold frames.
C28_SpeechNeverSuppressed ==
    \A k \in 1..Len(frameLog) :
        /\ frameLog[k].loud => frameLog[k].sent
        /\ ~frameLog[k].sent =>
               /\ ~frameLog[k].loud
               /\ ~frameLog[k].wasSpeech
               /\ k > MAX_SILENCE_PAD_FRAMES
               /\ \A j \in (k - MAX_SILENCE_PAD_FRAMES)..k : ~frameLog[j].loud

\* Right after a frame that was dropped, an above-threshold frame is sent
\* while isSpeech is still false.
C28_Witness ==
    \E k \in 2..Len(frameLog) :
        /\ ~frameLog[k - 1].sent
        /\ frameLog[k].loud
        /\ frameLog[k].sent
        /\ ~frameLog[k].isSpeech

\* The setTimeouts set by the close events before the k-th entry of wsLog and
\* after the last open event before it.
ScheduledSinceOpen(k) ==
    {j \in 1..(k - 1) :
        /\ wsLog[j].event = "close"
        /\ wsLog[j].delay # 0
        /\ \A i \in j..(k - 1) : wsLog[i].event # "open"}

Executions == {k \in 1..Len(configureLog) : configureLog[k].outcome # "skipped"}

Completions == {k \in 1..Len(configureLog) : configureLog[k].outcome = "configured"}

\* C30: the first configureAmplify call executes Amplify.configure; no call
\* after an execution that completed executes it, so it completes at most
\* once, and when the execution of the first call completes it is the only
\* one.
C30_ConfiguredOnce ==
    /\ Len(configureLog) >= 1 => 1 \in Executions
    /\ \A k \in Completions : \A j \in Executions : j <= k
    /\ Cardinality(Completions) <= 1
    /\ 1 \in Completions => Executions = {1}
    /\ isConfigured <=> Completions # {}

\* Four calls by the three callers: Amplify.configure completed in the first
\* and the others skipped it.
C30_Witness ==
    /\ Len(configureLog) = 4
    /\ configureLog[1].outcome = "configured"
    /\ {configureLog[k].caller : k \in 2..4} = Callers
    /\ \A k \in 2..4 : configureLog[k].outcome = "skipped"

====
